---- MODULE Spec2Model ----
(***************************************************************************)
(* valit.value_iteration (src/valit/valit.py) as a state machine.          *)
(*                                                                         *)
(* One call of value_iteration is modelled statement by statement: the     *)
(* validation block, the body of the sweep loops (lines 54 and 55), the    *)
(* body of the policy loops (lines 60 and 61) and the return.  Loop heads  *)
(* are folded into the step that precedes them.                            *)
(*                                                                         *)
(* Numbers are exact rationals <<n, d>> in lowest terms.  Every value the  *)
(* inputs below can produce is a dyadic rational of small magnitude, which *)
(* Python's float represents exactly, so exact arithmetic is what the      *)
(* program computes on these inputs.  (-1/10 is only ever compared with 0  *)
(* and 1.)                                                                 *)
(*                                                                         *)
(* probs returns an np.array (the annotation of line 4); the product with  *)
(* list(val_dict.values()) follows numpy's broadcasting rule.              *)
(*                                                                         *)
(* probs and rewards are the caller's callables.  They are pure: an answer *)
(* is chosen when a pair is asked for the first time and every later       *)
(* invocation with that pair gets the same answer.                         *)
(***************************************************************************)
EXTENDS Integers, Sequences, FiniteSets, TLC

VARIABLES
    states,       \* argument: list of states
    actions,      \* argument: list of actions
    probs,        \* argument: the answers probs has given so far, (state, action) -> vector
    rewards,      \* argument: the answers rewards has given so far, (state, action) -> reward
    horizon,      \* argument
    discount,     \* argument
    pc,           \* position in value_iteration
    k,            \* sweep counter (lines 45, 47, 48)
    si,           \* index of s in states in the running for-loop
    ai,           \* index of a in actions in the running for-loop
    val_dict,     \* dict state -> value, a sequence of <<key, value>> in insertion order
    val_action,   \* dict action -> q-value, same representation
    policy_dict,  \* dict state -> action, same representation
    ret,          \* what the call handed to its caller
    nprobs,       \* invocations of probs in this call, (state, action) -> count
    nrewards,     \* invocations of rewards in this call, (state, action) -> count
    first         \* history: arguments and outcome of the first call of the behaviour,
                  \* and whether a later call has begun

vars == <<states, actions, probs, rewards, horizon, discount, pc, k, si, ai,
          val_dict, val_action, policy_dict, ret, nprobs, nrewards, first>>

----------------------------------------------------------------------------
(* Bounds of the model *)

MaxHorizon == 2

----------------------------------------------------------------------------
(* Exact rational arithmetic *)

Abs(n) == IF n < 0 THEN -n ELSE n

RECURSIVE Gcd(_, _)
Gcd(a, b) == IF b = 0 THEN a ELSE Gcd(b, a % b)

Rat(n, d) ==
    LET g == Gcd(Abs(n), d) IN <<n \div g, d \div g>>

Zero == Rat(0, 1)
One == Rat(1, 1)

RAdd(x, y) == Rat(x[1] * y[2] + y[1] * x[2], x[2] * y[2])
RMul(x, y) == Rat(x[1] * y[1], x[2] * y[2])
RLt(x, y) == x[1] * y[2] < y[1] * x[2]
RGt(x, y) == RLt(y, x)

\* int(x): truncation toward zero
IntOf(x) == IF x[1] >= 0 THEN Rat(x[1] \div x[2], 1) ELSE Rat(-((-x[1]) \div x[2]), 1)

\* builtin sum over a sequence, left to right from 0
RECURSIVE SumSeq(_)
SumSeq(q) == IF q = <<>> THEN Zero ELSE RAdd(SumSeq(SubSeq(q, 1, Len(q) - 1)), q[Len(q)])

----------------------------------------------------------------------------
(* Python dict: insertion-ordered sequence of <<key, value>> *)

DictKeys(d) == [i \in 1..Len(d) |-> d[i][1]]
DictValues(d) == [i \in 1..Len(d) |-> d[i][2]]
HasKey(d, key) == \E i \in 1..Len(d) : d[i][1] = key
DictGet(d, key) == d[CHOOSE i \in 1..Len(d) : d[i][1] = key][2]

\* d[key] = v: an existing key keeps its position, a new key goes last
DictSet(d, key, v) ==
    IF HasKey(d, key)
    THEN [i \in 1..Len(d) |-> IF d[i][1] = key THEN <<key, v>> ELSE d[i]]
    ELSE Append(d, <<key, v>>)

\* dict(zip(states, [0]*len(states)))
ZeroDict(ss) == [i \in 1..Len(ss) |-> <<ss[i], Zero>>]

\* max(d.values()) of a non-empty dict
MaxValue(d) ==
    LET vs == DictValues(d)
    IN vs[CHOOSE i \in 1..Len(vs) : \A j \in 1..Len(vs) : ~RLt(vs[i], vs[j])]

\* min(d, key = d.get)
ArgMin(d) ==
    LET i == CHOOSE i \in 1..Len(d) :
                 /\ \A j \in 1..Len(d) : ~RLt(d[j][2], d[i][2])
                 /\ \A j \in 1..(i - 1) : RLt(d[i][2], d[j][2])
    IN d[i][1]

\* the last key among the maximal ones
ArgMaxLast(d) ==
    LET i == CHOOSE i \in 1..Len(d) :
                 /\ \A j \in 1..Len(d) : ~RLt(d[i][2], d[j][2])
                 /\ \A j \in (i + 1)..Len(d) : RLt(d[j][2], d[i][2])
    IN d[i][1]

\* max(d, key = d.get) of a non-empty dict: the first key, in iteration order,
\* whose value no other value exceeds
ArgMax(d) ==
    LET i == CHOOSE i \in 1..Len(d) :
                 /\ \A j \in 1..Len(d) : ~RLt(d[i][2], d[j][2])
                 /\ \A j \in 1..(i - 1) : RLt(d[j][2], d[i][2])
    IN d[i][1]

----------------------------------------------------------------------------
(* numpy: np.array * list *)

\* the operands' shapes broadcast together
Broadcastable(p, v) == Len(p) = Len(v) \/ Len(p) = 1 \/ Len(v) = 1

\* elementwise product of an array and a list, an operand of length 1 stretched
Product(p, v) ==
    LET n == IF Len(p) >= Len(v) THEN Len(p) ELSE Len(v)
    IN [i \in 1..n |-> RMul(IF Len(p) = 1 THEN p[1] ELSE p[i],
                            IF Len(v) = 1 THEN v[1] ELSE v[i])]

----------------------------------------------------------------------------
(* The arguments a call is given *)

StateLists == {<<>>, <<"s0">>, <<"s0", "s1">>}
ActionLists == {<<>>, <<"a0">>, <<"a0", "a1">>, <<"a1", "a0">>}
Elems(q) == {q[i] : i \in 1..Len(q)}

\* vectors probs may return when there are n states.  n = 2: two distributions,
\* a vector of length 1 (which numpy stretches) and a vector of length 3 (which it
\* refuses).  n = 1: the distribution and a vector that sums to 1/2.
PVecs(n) ==
    IF n = 1
    THEN {<<One>>, <<Rat(1, 2)>>}
    ELSE {<<One, Zero>>, <<Zero, One>>, <<One>>, <<One, Zero, Zero>>}

RewardVals == {Zero, One}

Horizons == {Rat(-1, 1), Rat(5, 2)} \cup {Rat(h, 1) : h \in 0..MaxHorizon}
Discounts == {Rat(-1, 10), Zero, Rat(1, 2), One, Rat(3, 2)}

\* the arguments of the calls of a behaviour that calls repeatedly
RepeatStateLists == {<<"s0">>}
RepeatHorizons == {Rat(-1, 1), Zero, One}
RepeatDiscounts == {One, Rat(3, 2)}

NoRet == [tag |-> "none", msg |-> "", policy |-> <<>>, value |-> <<>>]
NoCall == [set |-> FALSE, later |-> FALSE]

\* the locals of a call that has not yet run line 43
Entry ==
    /\ pc = "validate"
    /\ k = 0 /\ si = 0 /\ ai = 0
    /\ val_dict = <<>> /\ val_action = <<>> /\ policy_dict = <<>>
    /\ ret = NoRet
    /\ nprobs = <<>> /\ nrewards = <<>>

Init ==
    /\ states \in StateLists
    /\ actions \in ActionLists
    /\ probs = <<>>
    /\ rewards = <<>>
    /\ horizon \in Horizons
    /\ discount \in Discounts
    /\ Entry
    /\ first = NoCall

----------------------------------------------------------------------------
(* value_iteration *)

Args == <<states, actions, probs, rewards, horizon, discount>>

\* return("Error: ...")
ErrorString(m) == [tag |-> "str", msg |-> m, policy |-> <<>>, value |-> <<>>]
\* return(policy_dict, val_dict)
Result(p, v) == [tag |-> "tuple", msg |-> "", policy |-> p, value |-> v]
\* an exception leaves the call
Raised(e) == [tag |-> "raise", msg |-> e, policy |-> <<>>, value |-> <<>>]

\* the call ends and hands r to its caller
Finish(r) ==
    /\ ret' = r
    /\ pc' = "done"
    /\ first' = IF first.set THEN first
                ELSE [set |-> TRUE, later |-> FALSE, args |-> Args, ret |-> r]

\* lines 57-58: policy_dict = {} and the head of the policy loops
EnterExtract ==
    /\ policy_dict' = <<>>
    /\ si' = IF states = <<>> THEN si ELSE 1
    /\ ai' = IF states = <<>> \/ actions = <<>> THEN ai ELSE 1
    /\ pc' = IF states = <<>> THEN "return"
             ELSE IF actions = <<>> THEN "extract_s" ELSE "extract_a"

\* the sweeps stop after the first one
EnterSweepEarlyStop(kk) ==
    IF kk >= horizon[1] \/ kk >= 1
    THEN /\ k' = kk
         /\ EnterExtract
    ELSE IF states = <<>>
    THEN /\ k' = horizon[1]
         /\ EnterExtract
    ELSE /\ k' = kk + 1
         /\ si' = 1
         /\ ai' = IF actions = <<>> THEN ai ELSE 1
         /\ pc' = IF actions = <<>> THEN "sweep_s" ELSE "sweep_a"
         /\ UNCHANGED policy_dict

\* range(horizon + 1)
EnterSweepOneMore(kk) ==
    IF kk > horizon[1]
    THEN /\ k' = kk
         /\ EnterExtract
    ELSE IF states = <<>>
    THEN /\ k' = horizon[1]
         /\ EnterExtract
    ELSE /\ k' = kk + 1
         /\ si' = 1
         /\ ai' = IF actions = <<>> THEN ai ELSE 1
         /\ pc' = IF actions = <<>> THEN "sweep_s" ELSE "sweep_a"
         /\ UNCHANGED policy_dict

\* lines 47-50: the head of the sweep loops, entered with kk sweeps begun
EnterSweep(kk) ==
    IF kk >= horizon[1]
    THEN /\ k' = kk
         /\ EnterExtract
    ELSE IF states = <<>>
    THEN \* every remaining sweep has an empty body
         /\ k' = horizon[1]
         /\ EnterExtract
    ELSE /\ k' = kk + 1
         /\ si' = 1
         /\ ai' = IF actions = <<>> THEN ai ELSE 1
         /\ pc' = IF actions = <<>> THEN "sweep_s" ELSE "sweep_a"
         /\ UNCHANGED policy_dict

\* line 37: discount > 1 or discount < 0
BadDiscountUpperOnly(d) == RGt(d, One)
BadDiscount(d) == RGt(d, One) \/ RLt(d, Zero)

\* line 39: horizon < 0 or int(horizon) != horizon
BadHorizonSignOnly(h) == RLt(h, Zero)
BadHorizon(h) == RLt(h, Zero) \/ IntOf(h) # h

\* line 44: val_action = {}
StaleValAction == val_action
NewValAction == <<>>

\* lines 37-45
Validate ==
    /\ pc = "validate"
    /\ UNCHANGED <<states, actions, probs, rewards, horizon, discount, nprobs, nrewards>>
    /\ IF BadDiscount(discount)
       THEN /\ Finish(ErrorString("Error: the discount must be between 0 and 1"))
            /\ UNCHANGED <<k, si, ai, val_dict, val_action, policy_dict>>
       ELSE IF BadHorizon(horizon)
       THEN /\ Finish(ErrorString("Error: the horizon must be a positive integer"))
            /\ UNCHANGED <<k, si, ai, val_dict, val_action, policy_dict>>
       ELSE /\ val_dict' = ZeroDict(states)
            /\ val_action' = NewValAction
            /\ EnterSweep(0)
            /\ UNCHANGED <<ret, first>>

\* the right-hand side of lines 54 and 60, r and p being what rewards and probs
\* returned: r + discount * sum(p * list(val_dict.values()))
QValue(r, p, vd) ==
    RAdd(r, RMul(discount, SumSeq(Product(p, DictValues(vd)))))

\* a pure callable f invoked with x answers v
Answers(f, x, v) == x \in DOMAIN f => f[x] = v
Asked(f, x, v) == IF x \in DOMAIN f THEN f ELSE f @@ (x :> v)
\* one more invocation with x
Counted(n, x) == IF x \in DOMAIN n THEN [n EXCEPT ![x] = @ + 1] ELSE n @@ (x :> 1)

\* lines 54 and 60 invoke rewards, then probs, then multiply and assign
Evaluate(next) ==
    LET s == states[si]
        a == actions[ai]
    IN \E r \in RewardVals, p \in PVecs(Len(states)) :
       /\ Answers(rewards, <<s, a>>, r)
       /\ Answers(probs, <<s, a>>, p)
       /\ rewards' = Asked(rewards, <<s, a>>, r)
       /\ probs' = Asked(probs, <<s, a>>, p)
       /\ nrewards' = Counted(nrewards, <<s, a>>)
       /\ nprobs' = Counted(nprobs, <<s, a>>)
       /\ IF Broadcastable(p, DictValues(val_dict))
          THEN /\ val_action' = DictSet(val_action, a, QValue(r, p, val_dict))
               /\ IF ai < Len(actions)
                  THEN /\ ai' = ai + 1
                       /\ pc' = pc
                  ELSE /\ ai' = ai
                       /\ pc' = next
               /\ UNCHANGED <<ret, first>>
          ELSE /\ Finish(Raised("ValueError"))
               /\ UNCHANGED <<ai, val_action>>

\* line 54
SweepAction ==
    /\ pc = "sweep_a"
    /\ Evaluate("sweep_s")
    /\ UNCHANGED <<states, actions, horizon, discount, k, si, val_dict, policy_dict>>

\* line 55, then the heads of the loops of lines 49 and 47
SweepState ==
    /\ pc = "sweep_s"
    /\ UNCHANGED <<states, actions, probs, rewards, horizon, discount,
                   val_action, nprobs, nrewards>>
    /\ IF val_action = <<>>
       THEN /\ Finish(Raised("ValueError"))
            /\ UNCHANGED <<k, si, ai, val_dict, policy_dict>>
       ELSE /\ val_dict' = DictSet(val_dict, states[si], MaxValue(val_action))
            /\ UNCHANGED <<ret, first>>
            /\ IF si < Len(states)
               THEN /\ si' = si + 1
                    /\ ai' = 1
                    /\ pc' = "sweep_a"
                    /\ UNCHANGED <<k, policy_dict>>
               ELSE EnterSweep(k)

\* line 60
ExtractAction ==
    /\ pc = "extract_a"
    /\ Evaluate("extract_s")
    /\ UNCHANGED <<states, actions, horizon, discount, k, si, val_dict, policy_dict>>

\* line 61, then the head of the loop of line 58
ExtractState ==
    /\ pc = "extract_s"
    /\ UNCHANGED <<states, actions, probs, rewards, horizon, discount,
                   k, val_dict, val_action, nprobs, nrewards>>
    /\ IF val_action = <<>>
       THEN /\ Finish(Raised("ValueError"))
            /\ UNCHANGED <<si, ai, policy_dict>>
       ELSE /\ policy_dict' = DictSet(policy_dict, states[si], ArgMax(val_action))
            /\ UNCHANGED <<ret, first>>
            /\ IF si < Len(states)
               THEN /\ si' = si + 1
                    /\ ai' = 1
                    /\ pc' = "extract_a"
               ELSE /\ pc' = "return"
                    /\ UNCHANGED <<si, ai>>

\* line 62
Return ==
    /\ pc = "return"
    /\ Finish(Result(policy_dict, val_dict))
    /\ UNCHANGED <<states, actions, probs, rewards, horizon, discount,
                   k, si, ai, val_dict, val_action, policy_dict, nprobs, nrewards>>

Next ==
    \/ Validate
    \/ SweepAction
    \/ SweepState
    \/ ExtractAction
    \/ ExtractState
    \/ Return

Spec == Init /\ [][Next]_vars

----------------------------------------------------------------------------
(* A caller that calls value_iteration again after a call has ended *)

InitRepeat ==
    /\ states \in RepeatStateLists
    /\ actions \in ActionLists
    /\ probs = <<>>
    /\ rewards = <<>>
    /\ horizon \in RepeatHorizons
    /\ discount \in RepeatDiscounts
    /\ Entry
    /\ first = NoCall

\* the next call: new arguments, fresh callables, a new frame.  A local of the new
\* frame is unbound until the statement that assigns it (lines 43-45, 49, 50, 57)
\* has run; until then its variable still shows what the last call left there.
Recall ==
    /\ pc = "done"
    /\ states' \in RepeatStateLists
    /\ actions' \in ActionLists
    /\ probs' = <<>>
    /\ rewards' = <<>>
    /\ horizon' \in RepeatHorizons
    /\ discount' \in RepeatDiscounts
    /\ pc' = "validate"
    /\ ret' = NoRet
    /\ nprobs' = <<>>
    /\ nrewards' = <<>>
    /\ first' = [first EXCEPT !.later = TRUE]
    /\ UNCHANGED <<k, si, ai, val_dict, val_action, policy_dict>>

NextRepeat ==
    \/ Next
    \/ Recall

SpecRepeat == InitRepeat /\ [][NextRepeat]_vars

----------------------------------------------------------------------------
(* Vocabulary of the properties *)

N == Len(states)
M == Len(actions)

\* the call has ended by line 62
ReturnedPair == pc = "done" /\ ret.tag = "tuple"
\* the call has ended by line 38 or line 40
ReturnedError == pc = "done" /\ ret.tag = "str"

ValidDiscount == discount[1] >= 0 /\ discount[1] <= discount[2]
ValidHorizon == horizon[2] = 1 /\ horizon[1] >= 0

\* sum of the invocation counts of a callable
RECURSIVE Total(_, _)
Total(n, D) ==
    IF D = {} THEN 0 ELSE LET x == CHOOSE x \in D : TRUE IN n[x] + Total(n, D \ {x})

\* the greatest of a non-empty set of rationals
RMax(S) == CHOOSE x \in S : \A y \in S : ~RLt(x, y)

\* every vector probs has returned has one entry per state / sums to 1
Aligned == \A x \in DOMAIN probs : Len(probs[x]) = N
Normalised == \A x \in DOMAIN probs : SumSeq(probs[x]) = One

\* the Bellman backup of the specification for state i and action j, V a sequence
\* of values in the order of states
Backup(i, j, V) ==
    LET x == <<states[i], actions[j]>>
    IN RAdd(rewards[x], RMul(discount, SumSeq([n \in 1..N |-> RMul(probs[x][n], V[n])])))

\* the value function after kk synchronous sweeps
RECURSIVE Jacobi(_)
Jacobi(kk) ==
    IF kk = 0
    THEN [i \in 1..N |-> Zero]
    ELSE LET V == Jacobi(kk - 1)
         IN [i \in 1..N |-> RMax({Backup(i, j, V) : j \in 1..M})]

\* the two-state chain: s0 -> s1 with reward 1, s1 -> s0 with reward 0, one action,
\* discount 1, horizon 2
IsChain ==
    /\ states = <<"s0", "s1">>
    /\ actions = <<"a0">>
    /\ probs = (<<"s0", "a0">> :> <<Zero, One>>) @@ (<<"s1", "a0">> :> <<One, Zero>>)
    /\ rewards = (<<"s0", "a0">> :> One) @@ (<<"s1", "a0">> :> Zero)
    /\ discount = One
    /\ horizon = Rat(2, 1)

----------------------------------------------------------------------------
(* C1 *)

\* C1: sweeps are synchronous: when the call returns, the value function is the
\* result of horizon Jacobi sweeps, each state's new value computed from the values
\* as they stood when the sweep began; for the two-state chain that is {s0: 1, s1: 1}.
C1_Synchronous ==
    /\ (ReturnedPair /\ Aligned) => DictValues(ret.value) = Jacobi(horizon[1])
    /\ (ReturnedPair /\ IsChain) => ret.value = <<(<<"s0", One>>), (<<"s1", One>>)>>

----------------------------------------------------------------------------
(* C2 *)

\* q(states[i], actions[j]) as line 60 computes it from the returned value function
FinalQ(i, j) ==
    LET x == <<states[i], actions[j]>> IN QValue(rewards[x], probs[x], ret.value)

\* the first action, in the caller's order, whose q-value for states[i] is maximal
FirstBest(i) ==
    LET q == [j \in 1..M |-> FinalQ(i, j)]
    IN actions[CHOOSE j \in 1..M :
                   /\ \A l \in 1..M : ~RLt(q[j], q[l])
                   /\ \A l \in 1..(j - 1) : q[l] # q[j]]

\* C2: when the call returns, the policy of every state is the first action, in the
\* caller's action order, among those whose q-value for that state is maximal.
C2_TieBreak ==
    ReturnedPair => \A i \in 1..N : DictGet(ret.policy, states[i]) = FirstBest(i)

\* a tie at the second state, the caller's order being a1 before a0, after a sweep
C2_Witness ==
    /\ ReturnedPair
    /\ states = <<"s0", "s1">>
    /\ actions = <<"a1", "a0">>
    /\ horizon[1] >= 1
    /\ FinalQ(1, 1) # FinalQ(1, 2)
    /\ FinalQ(2, 1) = FinalQ(2, 2)
    /\ DictGet(ret.policy, "s1") = "a1"

----------------------------------------------------------------------------
(* C3 *)

\* every vector probs has returned can be multiplied with the list of values
Conformable == \A x \in DOMAIN probs : Len(probs[x]) \in {1, N}

\* the first action, in the caller's order, whose immediate reward in states[i] is
\* maximal
FirstBestReward(i) ==
    actions[CHOOSE j \in 1..M :
                /\ \A l \in 1..M : ~RLt(rewards[<<states[i], actions[j]>>],
                                        rewards[<<states[i], actions[l]>>])
                /\ \A l \in 1..(j - 1) : rewards[<<states[i], actions[l]>>]
                                           # rewards[<<states[i], actions[j]>>]]

\* C3: with horizon 0, non-empty states and actions and a valid discount, a call
\* that has ended (its vectors conformable) has returned a pair, has run no sweep
\* and has invoked probs only in the policy pass; every state's value is 0 and its
\* policy is the first action maximizing the immediate reward alone.
C3_HorizonZero ==
    (pc = "done" /\ horizon = Zero /\ ValidDiscount /\ N > 0 /\ M > 0 /\ Conformable)
    => /\ ret.tag = "tuple"
       /\ k = 0
       /\ Total(nprobs, DOMAIN nprobs) = N * M
       /\ ret.value = [i \in 1..N |-> <<states[i], Zero>>]
       /\ \A i \in 1..N : DictGet(ret.policy, states[i]) = FirstBestReward(i)

\* horizon 0 with a discount of 1/2, a vector of the wrong length, and rewards
\* that make the second action the better one in s0 and tie in s1
C3_Witness ==
    /\ ReturnedPair
    /\ horizon = Zero
    /\ discount = Rat(1, 2)
    /\ states = <<"s0", "s1">>
    /\ actions = <<"a0", "a1">>
    /\ ~Aligned
    /\ rewards[<<"s0", "a0">>] = Zero /\ rewards[<<"s0", "a1">>] = One
    /\ rewards[<<"s1", "a0">>] = One /\ rewards[<<"s1", "a1">>] = One
    /\ ret.policy = <<(<<"s0", "a1">>), (<<"s1", "a0">>)>>

----------------------------------------------------------------------------
(* C4 *)

\* C4: with a discount outside [0, 1] nothing is computed: neither callable is ever
\* invoked, no value function and no policy come to exist, and the call ends by
\* returning the error string, which is no (policy, value function) pair.
C4_InvalidDiscount ==
    ~ValidDiscount
    => /\ pc \in {"validate", "done"}
       /\ nprobs = <<>> /\ nrewards = <<>>
       /\ val_dict = <<>> /\ policy_dict = <<>>
       /\ pc = "done" => (ret.tag = "str" /\ ret.policy = <<>> /\ ret.value = <<>>)

\* a call with discount -0.1 and otherwise valid arguments has ended
C4_Witness ==
    /\ ReturnedError
    /\ discount = Rat(-1, 10)
    /\ ValidHorizon
    /\ N = 2 /\ M = 2

----------------------------------------------------------------------------
(* C5 *)

----------------------------------------------------------------------------
(* C6 *)

\* C6: with an empty states or an empty actions (horizon and discount valid) the
\* call fails, by the error string or at least by an exception: it never returns a
\* (policy, value function) pair.
C6_EmptyRejected ==
    (pc = "done" /\ (N = 0 \/ M = 0) /\ ValidDiscount /\ ValidHorizon)
    => ret.tag # "tuple"

----------------------------------------------------------------------------
(* C7 *)

\* C7: when probs has returned a vector whose length is not the number of states or
\* whose entries do not sum to 1, the call fails: it never returns a pair.
C7_BadVectorRejected ==
    (pc = "done" /\ ~(Aligned /\ Normalised)) => ret.tag # "tuple"

----------------------------------------------------------------------------
(* C8 *)

AllPairs == Elems(states) \X Elems(actions)

\* C8: a call that returns a pair has begun exactly horizon sweeps and has invoked
\* probs, and rewards, exactly horizon + 1 times with every (state, action) pair:
\* horizon * |states| * |actions| times in the sweeps and |states| * |actions| times
\* in the policy pass.  While sweep k runs every pair has been asked k - 1 or k times.
C8_CallCounts ==
    /\ ReturnedPair
       => /\ k = horizon[1]
          /\ DOMAIN nprobs = AllPairs /\ DOMAIN nrewards = AllPairs
          /\ \A x \in AllPairs : nprobs[x] = horizon[1] + 1 /\ nrewards[x] = horizon[1] + 1
          /\ Total(nprobs, AllPairs) = horizon[1] * N * M + N * M
          /\ Total(nrewards, AllPairs) = horizon[1] * N * M + N * M
    /\ pc \in {"sweep_a", "sweep_s"}
       => \A x \in DOMAIN nprobs : nprobs[x] \in {k - 1, k} /\ nrewards[x] = nprobs[x]
    /\ pc \in {"extract_a", "extract_s", "return"}
       => \A x \in DOMAIN nprobs : nprobs[x] \in {k, k + 1} /\ nrewards[x] = nprobs[x]

\* two states, two actions, two sweeps: twelve invocations of each callable
C8_Witness ==
    /\ ReturnedPair
    /\ N = 2 /\ M = 2
    /\ horizon[1] = 2
    /\ Total(nprobs, AllPairs) = 12
    /\ Total(nrewards, AllPairs) = 12

----------------------------------------------------------------------------
(* C9 *)

\* C9: whatever calls came before it, a call given the arguments of the first call
\* of the behaviour (the callables answering as they did then) ends with the outcome
\* the first call ended with.
C9_Deterministic ==
    (pc = "done" /\ first.set /\ Args = first.args) => ret = first.ret

\* a later call, with the first call's arguments, has returned a pair after a sweep
\* in which its two actions tied
C9_Witness ==
    /\ ReturnedPair
    /\ first.later
    /\ Args = first.args
    /\ M = 2
    /\ horizon = One
    /\ FinalQ(1, 1) = FinalQ(1, 2)

----------------------------------------------------------------------------
(* C10 *)

Rank(p) ==
    CASE p = "validate" -> 0
      [] p \in {"sweep_a", "sweep_s"} -> 1
      [] p \in {"extract_a", "extract_s", "return"} -> 2
      [] p = "done" -> 3

\* no policy entry before the last sweep has ended; the returned policy is greedy
\* for the returned value function, state by state
PhaseInv ==
    /\ Rank(pc) <= 1 => policy_dict = <<>>
    /\ policy_dict # <<>> => k = horizon[1]
    /\ ReturnedPair
       => /\ ret.value = val_dict
          /\ DictKeys(ret.policy) = states
          /\ \A i \in 1..N :
                \E j \in 1..M :
                   /\ DictGet(ret.policy, states[i]) = actions[j]
                   /\ FinalQ(i, j) = RMax({FinalQ(i, l) : l \in 1..M})

\* the phases never go back and the policy pass leaves the value function alone
PhaseStep ==
    /\ Rank(pc') >= Rank(pc)
    /\ Rank(pc) = 2 => val_dict' = val_dict

\* C10: the phases run in the order Validate, Iterate, ExtractPolicy; no policy
\* entry is written before the last sweep has ended; the policy pass does not change
\* the value function; the returned policy has one entry per state, an action whose
\* q-value for that state under the returned value function is maximal.
C10_Phases == []PhaseInv /\ [][PhaseStep]_vars

\* two sweeps over two states whose best actions differ
C10_Witness ==
    /\ ReturnedPair
    /\ N = 2 /\ M = 2
    /\ horizon[1] = 2
    /\ RLt(FinalQ(1, 1), FinalQ(1, 2))
    /\ RLt(FinalQ(2, 2), FinalQ(2, 1))
    /\ ret.policy = <<(<<"s0", actions[2]>>), (<<"s1", actions[1]>>)>>

====
